---- MODULE Spec2Model ----
(***************************************************************************)
(* clipcat: the selection monitor (src/monitor.rs) and the file-backed     *)
(* history driver (src/bin/clipcatd/history/fs.rs).                        *)
(*                                                                         *)
(* The monitor is modelled as the controller (ClipboardMonitor::new and    *)
(* its methods), one watcher thread per selection kind (the closure        *)
(* spawned by build_thread, one action per blocking call or shared-memory  *)
(* access) and the tokio broadcast channel the watchers publish to (a ring *)
(* of Cap slots, one cursor per receiver).                                 *)
(***************************************************************************)
EXTENDS Integers, Sequences, FiniteSets, TLC

\* ------------------------------------------------------------------ bounds

\* How many times load_wait() returns a value, all watchers together (Spec).
MaxChanges == 2
\* The same under SpecBus, where one watcher must overrun the ring.
MaxBusChanges == 18
\* How long the stored history may get (SpecHist).
MaxStored == 3
\* How many records are appended between two clear() calls (SpecHist).
MaxAppended == 4
\* How many records one save() call is given.
MaxBatch == 2

\* How many put calls two concurrent callers start in all.
MaxPuts == 3

\* --------------------------------------------------------------- constants

\* Mutant of Cap: a shorter ring, channel(8).
CapHalf == 16 \div 2

\* broadcast::channel(16): the ring's length.
Cap == 16

Kinds == {"Clipboard", "Primary"}

\* The collaborators that call subscribe() (each once).
Subs == {"s1"}

\* Selection contents, as byte strings: one byte, and two different two-byte
\* strings.
Contents == {<<1>>, <<1, 2>>, <<2, 1>>}

\* What clipboard.load() may find in a selection when a watcher starts.
StartContents == {<<1>>, <<1, 2>>}

\* What a backend hands over on a change under SpecBus.
BusContents == {<<2, 1>>}

\* The values of ClipboardMonitorOptions::filter_min_size that are tried.
MinSizes == {1}

Options == [load_current : BOOLEAN, enable_clipboard : BOOLEAN, enable_primary : BOOLEAN, filter_min_size : MinSizes]

VARIABLES
    opts,        \* the ClipboardMonitorOptions passed to new()
    pcNew,       \* where ClipboardMonitor::new is
    is_running,  \* the shared AtomicBool
    rxInit,      \* whether new()'s own _event_receiver is still alive
    exited,      \* std::process::exit(1) was called
    pc,          \* each watcher thread's position
    last,        \* each watcher's `last`
    curr,        \* each watcher's freshly read string (`data`, then `curr`)
    buffer,      \* the channel's ring: slot index -> [pos, val]
    tail,        \* the channel's next position
    rx,          \* each subscriber's receiver: [on, next]
    log,         \* history: every event the channel accepted, in order
    received,    \* history: what each subscriber's recv() returned, in order
    subAt,       \* history: the channel's tail when the subscriber subscribed
    lagged,      \* history: how many events each subscriber was told it missed
    chg          \* history: per watcher, one entry per value load_wait() returned:
                 \* the value (c), the flag as read (run), `last` then, how many
                 \* events the watcher had published (own), what became of it (out)

monVars == <<opts, pcNew, is_running, rxInit, exited, pc, last, curr, buffer, tail, rx, log, received, subAt, lagged, chg>>

VARIABLES
    file,        \* the backing file: [exists, bytes]
    ret,         \* the last HistoryDriver call: what it was given and returned
    appended,    \* history: the records saved or put since the last clear()
    dirty        \* history: a shrink_to or a torn write since the last clear()

VARIABLES
    call,        \* per caller of put: where it is, what it loaded, what it puts
    acked,       \* history: the records whose put returned Ok, in order of return
    overlap      \* history: a put loaded the file while another was between load and write

concVars == <<call, acked, overlap>>

histVars == <<file, ret, appended, dirty, concVars>>

vars == <<monVars, histVars>>

\* ------------------------------------------------------------ the channel

\* ClipboardEvent::new_clipboard / new_primary
ClipboardEvent(w, data) == [selection |-> w, content |-> data]

\* A fresh channel: slot i holds position i - Cap, so that no slot is current.
EmptyBuffer == [i \in 0..(Cap - 1) |-> [pos |-> i - Cap, val |-> ClipboardEvent("Clipboard", <<>>)]]

\* Receivers alive: new()'s own until it returns, and every subscriber's.
NumReceivers == (IF rxInit THEN 1 ELSE 0) + Cardinality({s \in Subs : rx[s].on})

\* Sender::send writes the slot at tail and advances tail; it never waits.
BusWrite(buf, t, ev) == [buf EXCEPT ![t % Cap] = [pos |-> t, val |-> ev]]

\* One Receiver::try_recv against the ring: the slot at `next` is current
\* (a value), or one lap behind (empty), or was overwritten (lagged: the
\* cursor jumps to the oldest slot still held).
RecvKind(buf, t, next) == IF buf[next % Cap].pos = next THEN "value" ELSE IF buf[next % Cap].pos + Cap = next THEN "empty" ELSE "lagged"

RECURSIVE Drain(_, _, _)
\* What a receiver at `next` gets from repeated recv() with no further send.
Drain(buf, t, next) ==
    CASE RecvKind(buf, t, next) = "empty" -> <<>>
      [] RecvKind(buf, t, next) = "lagged" -> Drain(buf, t, t - Cap)
      [] OTHER -> <<buf[next % Cap]>> \o Drain(buf, t, next + 1)

\* The events a subscriber has pending.
Pending(s) == IF rx[s].on THEN Drain(buffer, tail, rx[s].next) ELSE <<>>

\* ------------------------------------------------------------------- Init

MonInit ==
    /\ opts \in Options
    /\ pcNew = "clipboard"
    /\ is_running = TRUE
    /\ rxInit = TRUE
    /\ exited = FALSE
    /\ pc = [w \in Kinds |-> "none"]
    /\ last = [w \in Kinds |-> <<>>]
    /\ curr = [w \in Kinds |-> <<>>]
    /\ buffer = EmptyBuffer
    /\ tail = 0
    /\ rx = [s \in Subs |-> [on |-> FALSE, next |-> 0]]
    /\ log = <<>>
    /\ received = [s \in Subs |-> <<>>]
    /\ subAt = [s \in Subs |-> 0]
    /\ lagged = [s \in Subs |-> 0]
    /\ chg = [w \in Kinds |-> <<>>]

\* ------------------------------------------------- ClipboardMonitor::new

Requested(w) == IF w = "Clipboard" THEN opts.enable_clipboard ELSE opts.enable_primary

AfterBuild(w) == IF w = "Clipboard" THEN "primary" ELSE "return"

StepOf(w) == IF w = "Clipboard" THEN "clipboard" ELSE "primary"

\* new() reaches `if opts.enable_<w>`: build_thread constructs the backend and
\* spawns the watcher, or fails and `?` returns the error, dropping the
\* monitor and new()'s receiver.
NewBuild(w, ok) ==
    /\ ~exited
    /\ pcNew = StepOf(w)
    /\ IF ~Requested(w)
       THEN /\ ok
            /\ pcNew' = AfterBuild(w)
            /\ UNCHANGED <<pc, rxInit>>
       ELSE IF ok
       THEN /\ pcNew' = AfterBuild(w)
            /\ pc' = [pc EXCEPT ![w] = "load"]
            /\ UNCHANGED rxInit
       ELSE /\ pcNew' = "failed"
            /\ rxInit' = FALSE
            /\ UNCHANGED pc
    /\ UNCHANGED <<histVars, opts, is_running, exited, last, curr, buffer, tail, rx, log, received, subAt, lagged, chg>>

\* Ok(monitor): _event_receiver goes out of scope.
NewReturn ==
    /\ ~exited
    /\ pcNew = "return"
    /\ pcNew' = "done"
    /\ rxInit' = FALSE
    /\ UNCHANGED <<histVars, opts, is_running, exited, pc, last, curr, buffer, tail, rx, log, received, subAt, lagged, chg>>

\* ---------------------------------------------------- controller methods

\* Mutant of NewReceiverPos: a new receiver starts at the oldest slot held.
NewReceiverPosOldest == IF tail > Cap THEN tail - Cap ELSE 0

\* The cursor a new receiver starts at.
NewReceiverPos == tail

subscribe(s) ==
    /\ ~exited
    /\ pcNew = "done"
    /\ ~rx[s].on
    /\ rx' = [rx EXCEPT ![s] = [on |-> TRUE, next |-> NewReceiverPos]]
    /\ subAt' = [subAt EXCEPT ![s] = tail]
    /\ UNCHANGED <<histVars, opts, pcNew, is_running, rxInit, exited, pc, last, curr, buffer, tail, log, received, lagged, chg>>

enable ==
    /\ ~exited
    /\ pcNew = "done"
    /\ is_running' = TRUE
    /\ UNCHANGED <<histVars, opts, pcNew, rxInit, exited, pc, last, curr, buffer, tail, rx, log, received, subAt, lagged, chg>>

\* Mutant of disable: also makes every watcher thread return.
disableStopsWatchers ==
    /\ ~exited
    /\ pcNew = "done"
    /\ is_running' = FALSE
    /\ pc' = [w \in Kinds |-> IF pc[w] = "none" THEN "none" ELSE "stopped"]
    /\ UNCHANGED <<histVars, opts, pcNew, rxInit, exited, last, curr, buffer, tail, rx, log, received, subAt, lagged, chg>>

disable ==
    /\ ~exited
    /\ pcNew = "done"
    /\ is_running' = FALSE
    /\ UNCHANGED <<histVars, opts, pcNew, rxInit, exited, pc, last, curr, buffer, tail, rx, log, received, subAt, lagged, chg>>

\* toggle(): disable() when is_running(), else enable().
toggle ==
    /\ ~exited
    /\ pcNew = "done"
    /\ is_running' = ~is_running
    /\ UNCHANGED <<histVars, opts, pcNew, rxInit, exited, pc, last, curr, buffer, tail, rx, log, received, subAt, lagged, chg>>

\* state()
state == IF is_running THEN "Enabled" ELSE "Disabled"

\* A subscriber's recv(): a value, or the notice that it lagged.
Recv(s) ==
    /\ ~exited
    /\ rx[s].on
    /\ RecvKind(buffer, tail, rx[s].next) # "empty"
    /\ IF RecvKind(buffer, tail, rx[s].next) = "lagged"
       THEN /\ rx' = [rx EXCEPT ![s].next = tail - Cap]
            /\ lagged' = [lagged EXCEPT ![s] = @ + ((tail - Cap) - rx[s].next)]
            /\ UNCHANGED received
       ELSE /\ rx' = [rx EXCEPT ![s].next = @ + 1]
            /\ received' = [received EXCEPT ![s] = Append(@, buffer[rx[s].next % Cap])]
            /\ UNCHANGED lagged
    /\ UNCHANGED <<histVars, opts, pcNew, is_running, rxInit, exited, pc, last, curr, buffer, tail, log, subAt, chg>>

\* --------------------------------------------------- the watcher thread

\* send_event(data) succeeded: the channel takes the event.
Publish(w, data) ==
    /\ buffer' = BusWrite(buffer, tail, ClipboardEvent(w, data))
    /\ tail' = tail + 1
    /\ log' = Append(log, [pos |-> tail, val |-> ClipboardEvent(w, data)])

\* Mutant of ThreadLoad: the thread returns when the startup read fails.
ThreadLoadReturnsOnErr(w, ok, data) ==
    /\ ~exited
    /\ pc[w] = "load"
    /\ IF ~opts.load_current \/ ~ok
       THEN /\ data = <<1>>
            /\ opts.load_current \/ ok
            /\ pc' = [pc EXCEPT ![w] = IF ok THEN "wait" ELSE "stopped"]
            /\ UNCHANGED <<last, curr>>
       ELSE /\ curr' = [curr EXCEPT ![w] = data]
            /\ IF Len(data) > opts.filter_min_size
               THEN /\ pc' = [pc EXCEPT ![w] = "send0"]
                    /\ UNCHANGED last
               ELSE /\ pc' = [pc EXCEPT ![w] = "wait"]
                    /\ last' = [last EXCEPT ![w] = data]
    /\ UNCHANGED <<histVars, opts, pcNew, is_running, rxInit, exited, buffer, tail, rx, log, received, subAt, lagged, chg>>

\* `let mut last = if load_current { clipboard.load() ... }`: the read,
\* Ok(data) or Err. A string too short to publish becomes `last` at once.
\* Without load_current, and on Err, `last` is String::new() (ok and data
\* are then fixed, so that each outcome is taken once).
ThreadLoad(w, ok, data) ==
    /\ ~exited
    /\ pc[w] = "load"
    /\ IF ~opts.load_current \/ ~ok
       THEN /\ data = <<1>>
            /\ opts.load_current \/ ok
            /\ pc' = [pc EXCEPT ![w] = "wait"]
            /\ UNCHANGED <<last, curr>>
       ELSE /\ curr' = [curr EXCEPT ![w] = data]
            /\ IF Len(data) > opts.filter_min_size
               THEN /\ pc' = [pc EXCEPT ![w] = "send0"]
                    /\ UNCHANGED last
               ELSE /\ pc' = [pc EXCEPT ![w] = "wait"]
                    /\ last' = [last EXCEPT ![w] = data]
    /\ UNCHANGED <<histVars, opts, pcNew, is_running, rxInit, exited, buffer, tail, rx, log, received, subAt, lagged, chg>>

\* send_event(&data) at startup, then `data` becomes `last`; with no
\* receiver the thread returns.
ThreadSendLoaded(w) ==
    /\ ~exited
    /\ pc[w] = "send0"
    /\ IF NumReceivers = 0
       THEN /\ pc' = [pc EXCEPT ![w] = "stopped"]
            /\ UNCHANGED <<last, buffer, tail, log>>
       ELSE /\ Publish(w, curr[w])
            /\ last' = [last EXCEPT ![w] = curr[w]]
            /\ pc' = [pc EXCEPT ![w] = "wait"]
    /\ UNCHANGED <<histVars, opts, pcNew, is_running, rxInit, exited, curr, rx, received, subAt, lagged, chg>>

\* How many values load_wait() has returned so far.
NumChanges == Len(chg["Clipboard"]) + Len(chg["Primary"])

\* Mutant of ShouldPublish: the flag is not consulted.
ShouldPublishIgnoringFlag(w, c) == Len(c) > opts.filter_min_size /\ last[w] # c

\* The condition of the `if` in the change loop, for the value c just read.
ShouldPublish(w, c) == is_running /\ Len(c) > opts.filter_min_size /\ last[w] # c

\* clipboard.load_wait() returns Ok(c) and the `if` of the change loop is
\* evaluated (the flag is read here).
LoadWaitOk(w, c, maxChanges) ==
    /\ ~exited
    /\ pc[w] = "wait"
    /\ NumChanges < maxChanges
    /\ curr' = [curr EXCEPT ![w] = c]
    /\ pc' = [pc EXCEPT ![w] = IF ShouldPublish(w, c) THEN "send" ELSE "wait"]
    /\ chg' = [chg EXCEPT ![w] = Append(@, [c |-> c, run |-> is_running, last |-> last[w], own |-> Len(SelectSeq(log, LAMBDA e : e.val.selection = w)), out |-> IF ShouldPublish(w, c) THEN "pending" ELSE "none"])]
    /\ UNCHANGED <<histVars, opts, pcNew, is_running, rxInit, exited, last, buffer, tail, rx, log, received, subAt, lagged>>

\* Mutant of LoadWaitErr: the thread returns on a failed wait, whatever the factory would give.
LoadWaitErrReturns(w, ok) ==
    /\ ~exited
    /\ pc[w] = "wait"
    /\ pc' = [pc EXCEPT ![w] = "stopped"]
    /\ UNCHANGED <<histVars, opts, pcNew, is_running, rxInit, exited, last, curr, buffer, tail, rx, log, received, subAt, lagged, chg>>

\* clipboard.load_wait() returns Err and `clipboard = match get_clipboard`
\* runs: a new handle and back to load_wait, or process::exit(1).
LoadWaitErr(w, ok) ==
    /\ ~exited
    /\ pc[w] = "wait"
    /\ exited' = ~ok
    /\ UNCHANGED <<histVars, opts, pcNew, is_running, rxInit, pc, last, curr, buffer, tail, rx, log, received, subAt, lagged, chg>>

\* The string the change loop hands to send_event.
LoopPayload(w) == last[w]

\* `last` after a publish of the change loop.
LoopNextLast(w) == last[w]

\* Mutant of ThreadSend: a failed send is logged and the loop goes on.
ThreadSendIgnoresClosed(w) ==
    /\ ~exited
    /\ pc[w] = "send"
    /\ IF NumReceivers = 0
       THEN /\ pc' = [pc EXCEPT ![w] = "wait"]
            /\ chg' = [chg EXCEPT ![w][Len(chg[w])].out = "closed"]
            /\ UNCHANGED <<last, buffer, tail, log>>
       ELSE /\ Publish(w, LoopPayload(w))
            /\ last' = [last EXCEPT ![w] = LoopNextLast(w)]
            /\ chg' = [chg EXCEPT ![w][Len(chg[w])].out = "sent"]
            /\ pc' = [pc EXCEPT ![w] = "wait"]
    /\ UNCHANGED <<histVars, opts, pcNew, is_running, rxInit, exited, curr, rx, received, subAt, lagged>>

\* send_event in the change loop; with no receiver the thread returns.
ThreadSend(w) ==
    /\ ~exited
    /\ pc[w] = "send"
    /\ IF NumReceivers = 0
       THEN /\ pc' = [pc EXCEPT ![w] = "stopped"]
            /\ chg' = [chg EXCEPT ![w][Len(chg[w])].out = "closed"]
            /\ UNCHANGED <<last, buffer, tail, log>>
       ELSE /\ Publish(w, LoopPayload(w))
            /\ last' = [last EXCEPT ![w] = LoopNextLast(w)]
            /\ chg' = [chg EXCEPT ![w][Len(chg[w])].out = "sent"]
            /\ pc' = [pc EXCEPT ![w] = "wait"]
    /\ UNCHANGED <<histVars, opts, pcNew, is_running, rxInit, exited, curr, rx, received, subAt, lagged>>

\* ------------------------------------------------ history: SimpleDBDriver

\* The records a caller stores (opaque to the driver).
Records == {1, 2}

\* No file at the driver's path.
Absent == [exists |-> FALSE, bytes |-> <<>>]

Min(a, b) == IF a < b THEN a ELSE b

\* bincode::serialize_into(&mut file, &FileContents { data }): the length of
\* the Vec, then its elements in order (one token per record).
Serialize(data) == <<Len(data)>> \o data

\* bincode::deserialize_from(&mut file): the length, then that many
\* elements; an error when the file ends before.
Deserialize(bytes) ==
    IF Len(bytes) = 0 \/ Len(bytes) - 1 < bytes[1]
    THEN [status |-> "serde", data |-> <<>>]
    ELSE [status |-> "ok", data |-> SubSeq(bytes, 2, bytes[1] + 1)]

\* Mutant of load: a missing file is an error like any other open error.
loadStrict(f, io) ==
    IF io \/ ~f.exists THEN [status |-> "io", data |-> <<>>]
    ELSE Deserialize(f.bytes)

\* load(): File::open; a missing file is an empty history, any other open
\* error (io) is returned, and so is a decode error.
load(f, io) ==
    IF io THEN [status |-> "io", data |-> <<>>]
    ELSE IF ~f.exists THEN [status |-> "ok", data |-> <<>>]
    ELSE Deserialize(f.bytes)

\* Mutant of write: the encoding goes to a temporary file that replaces the
\* target only when it is complete.
writeViaRename(f, data, fault, cut) ==
    IF fault = "open" THEN [status |-> "io", file |-> f]
    ELSE IF fault = "encode" THEN [status |-> "serde", file |-> f]
    ELSE [status |-> "ok", file |-> [exists |-> TRUE, bytes |-> Serialize(data)]]

\* write(data): open (creating the file), set_len(0), serialize_into. fault
\* is "open" (the open fails: nothing is touched), "encode" (the encoding
\* stops after `cut` tokens) or anything else (none).
write(f, data, fault, cut) ==
    IF fault = "open" THEN [status |-> "io", file |-> f]
    ELSE IF fault = "encode"
    THEN [status |-> "serde", file |-> [exists |-> TRUE, bytes |-> SubSeq(Serialize(data), 1, Min(cut, Len(data)))]]
    ELSE [status |-> "ok", file |-> [exists |-> TRUE, bytes |-> Serialize(data)]]

RECURSIVE PushAllFront(_, _)
\* Mutant of PushAll: `saved.insert(0, data.clone())` for each record.
PushAllFront(saved, data) == IF data = <<>> THEN saved ELSE PushAllFront(<<Head(data)>> \o saved, Tail(data))

RECURSIVE PushAll(_, _)
\* `for data in data { saved.push(data.clone()) }`
PushAll(saved, data) == IF data = <<>> THEN saved ELSE PushAll(Append(saved, Head(data)), Tail(data))

RECURSIVE RemoveBack(_, _)
\* Mutant of RemoveFront: `saved.pop()`, the newest record goes first.
RemoveBack(saved, to_shrink) == IF to_shrink = 0 THEN saved ELSE RemoveBack(SubSeq(saved, 1, Len(saved) - 1), to_shrink - 1)

RECURSIVE RemoveFront(_, _)
\* `for _ in 0..to_shrink { saved.remove(0) }`
RemoveFront(saved, to_shrink) == IF to_shrink = 0 THEN saved ELSE RemoveFront(Tail(saved), to_shrink - 1)

\* usize::saturating_sub
SaturatingSub(a, b) == IF a > b THEN a - b ELSE 0

\* What each method leaves: [status, file]. fault "load" makes the open in
\* load() fail with an io error other than NotFound.
save(f, data, fault, cut) ==
    LET saved == load(f, fault = "load")
    IN  IF saved.status # "ok" THEN [status |-> saved.status, file |-> f]
        ELSE write(f, PushAll(saved.data, data), fault, cut)

\* Mutant of clear: the file is loaded first, as the other methods do.
clearAfterLoad(f, fault, cut) ==
    LET saved == load(f, fault = "load")
    IN  IF saved.status # "ok" THEN [status |-> saved.status, file |-> f]
        ELSE write(f, <<>>, fault, cut)

clear(f, fault, cut) == write(f, <<>>, fault, cut)

\* Mutant of put: `saved.insert(0, data.clone())`.
putFront(f, data, fault, cut) ==
    LET saved == load(f, fault = "load")
    IN  IF saved.status # "ok" THEN [status |-> saved.status, file |-> f]
        ELSE write(f, <<data>> \o saved.data, fault, cut)

put(f, data, fault, cut) ==
    LET saved == load(f, fault = "load")
    IN  IF saved.status # "ok" THEN [status |-> saved.status, file |-> f]
        ELSE write(f, Append(saved.data, data), fault, cut)

\* Mutant of shrink_to: `self.load().unwrap_or_default()`, a failed load counts as an empty history.
shrink_toDefaulting(f, min_capacity, fault, cut) ==
    LET saved == load(f, fault = "load")
    IN  write(f, RemoveFront(saved.data, SaturatingSub(Len(saved.data), min_capacity)), fault, cut)

shrink_to(f, min_capacity, fault, cut) ==
    LET saved == load(f, fault = "load")
    IN  IF saved.status # "ok" THEN [status |-> saved.status, file |-> f]
        ELSE write(f, RemoveFront(saved.data, SaturatingSub(Len(saved.data), min_capacity)), fault, cut)

\* What may go wrong in one call: nothing, the open in load(), the open in
\* write(), or the encoding after `cut` tokens.
Faults == {<<"none", 0>>, <<"load", 0>>, <<"open", 0>>} \cup {<<"encode", cut>> : cut \in {0, 1, 2}}

\* The batches save() is given.
Batches == UNION {[1..n -> Records] : n \in 0..MaxBatch}

\* The decoded history, when the file holds one.
Stored(f) == load(f, FALSE).data

\* The callers of put on one backing file in the concurrent specification.
Callers == {"a", "b"}

\* A caller outside put.
Idle == [pc |-> "idle", saved |-> <<>>, data |-> 0]

NoCall == [op |-> "none", fault |-> "none", arg |-> <<>>, n |-> 0, status |-> "ok", value |-> <<>>, before |-> Absent]

HistInit ==
    /\ file = Absent
    /\ ret = NoCall
    /\ appended = <<>>
    /\ dirty = FALSE
    /\ call = [p \in Callers |-> Idle]
    /\ acked = <<>>
    /\ overlap = FALSE

\* Whether a call that returned r tore the file (wrote part of an encoding).
Torn(r) == r.status # "ok" /\ r.file # file

Load(io) ==
    /\ UNCHANGED <<monVars, concVars>>
    /\ ret' = [op |-> "load", fault |-> IF io THEN "load" ELSE "none", arg |-> <<>>, n |-> 0, status |-> load(file, io).status, value |-> load(file, io).data, before |-> file]
    /\ UNCHANGED <<file, appended, dirty>>

Save(data, ft) ==
    LET r == save(file, data, ft[1], ft[2])
    IN  /\ UNCHANGED <<monVars, concVars>>
        /\ Len(Stored(file)) + Len(data) <= MaxStored
        /\ Len(appended) + Len(data) <= MaxAppended
        /\ file' = r.file
        /\ ret' = [op |-> "save", fault |-> ft[1], arg |-> data, n |-> 0, status |-> r.status, value |-> <<>>, before |-> file]
        /\ appended' = IF r.status = "ok" THEN appended \o data ELSE appended
        /\ dirty' = (dirty \/ Torn(r))

Put(data, ft) ==
    LET r == put(file, data, ft[1], ft[2])
    IN  /\ UNCHANGED <<monVars, concVars>>
        /\ Len(Stored(file)) + 1 <= MaxStored
        /\ Len(appended) + 1 <= MaxAppended
        /\ file' = r.file
        /\ ret' = [op |-> "put", fault |-> ft[1], arg |-> <<data>>, n |-> 0, status |-> r.status, value |-> <<>>, before |-> file]
        /\ appended' = IF r.status = "ok" THEN Append(appended, data) ELSE appended
        /\ dirty' = (dirty \/ Torn(r))

Clear(ft) ==
    LET r == clear(file, ft[1], ft[2])
    IN  /\ UNCHANGED <<monVars, concVars>>
        /\ ft[1] # "load"
        /\ file' = r.file
        /\ ret' = [op |-> "clear", fault |-> ft[1], arg |-> <<>>, n |-> 0, status |-> r.status, value |-> <<>>, before |-> file]
        /\ appended' = IF r.status = "ok" THEN <<>> ELSE appended
        /\ dirty' = IF r.status = "ok" THEN FALSE ELSE (dirty \/ Torn(r))

ShrinkTo(min_capacity, ft) ==
    LET r == shrink_to(file, min_capacity, ft[1], ft[2])
    IN  /\ UNCHANGED <<monVars, concVars>>
        /\ file' = r.file
        /\ ret' = [op |-> "shrink_to", fault |-> ft[1], arg |-> <<>>, n |-> min_capacity, status |-> r.status, value |-> <<>>, before |-> file]
        /\ dirty' = (dirty \/ Torn(r) \/ r.status = "ok")
        /\ UNCHANGED appended

\* Two callers of put on the same backing file (put takes &mut self, so each
\* caller has a driver of its own on the path), each call in its two steps.

\* `let mut saved = self.load()?` of put(data) by caller p.
PutLoad(p, data) ==
    LET saved == load(file, FALSE)
    IN  /\ UNCHANGED monVars
        /\ call[p].pc = "idle"
        /\ Len(acked) + Cardinality({q \in Callers : call[q].pc = "loaded"}) < MaxPuts
        /\ call' = [call EXCEPT ![p] = IF saved.status = "ok" THEN [pc |-> "loaded", saved |-> saved.data, data |-> data] ELSE Idle]
        /\ overlap' = (overlap \/ \E q \in Callers \ {p} : call[q].pc = "loaded")
        /\ UNCHANGED <<file, ret, appended, dirty, acked>>

\* Mutant of PutWrite: the write is handed the new record alone.
PutWriteAlone(p) ==
    LET r == write(file, <<call[p].data>>, "none", 0)
    IN  /\ UNCHANGED monVars
        /\ call[p].pc = "loaded"
        /\ file' = r.file
        /\ acked' = IF r.status = "ok" THEN Append(acked, call[p].data) ELSE acked
        /\ call' = [call EXCEPT ![p] = Idle]
        /\ UNCHANGED <<ret, appended, dirty, overlap>>

\* `saved.push(data); self.write(saved)` of put by caller p, and its return.
PutWrite(p) ==
    LET r == write(file, Append(call[p].saved, call[p].data), "none", 0)
    IN  /\ UNCHANGED monVars
        /\ call[p].pc = "loaded"
        /\ file' = r.file
        /\ acked' = IF r.status = "ok" THEN Append(acked, call[p].data) ELSE acked
        /\ call' = [call EXCEPT ![p] = Idle]
        /\ UNCHANGED <<ret, appended, dirty, overlap>>

\* ------------------------------------------------------------------- Next

\* The monitor.
Init == MonInit /\ HistInit

Next ==
    \/ \E w \in Kinds, ok \in BOOLEAN : NewBuild(w, ok)
    \/ NewReturn
    \/ \E s \in Subs : subscribe(s)
    \/ enable
    \/ disable
    \/ toggle
    \/ \E s \in Subs : Recv(s)
    \/ \E w \in Kinds, ok \in BOOLEAN, data \in StartContents : ThreadLoad(w, ok, data)
    \/ \E w \in Kinds : ThreadSendLoaded(w)
    \/ \E w \in Kinds, c \in Contents : LoadWaitOk(w, c, MaxChanges)
    \/ \E w \in Kinds, ok \in BOOLEAN : LoadWaitErr(w, ok)
    \/ \E w \in Kinds : ThreadSend(w)

Spec == Init /\ [][Next]_vars

\* The monitor with the clipboard watcher alone, always enabled, and enough
\* changes to overrun the ring.
InitBus == MonInit /\ HistInit /\ opts.enable_clipboard /\ ~opts.enable_primary

NextBus ==
    \/ \E w \in Kinds, ok \in BOOLEAN : NewBuild(w, ok)
    \/ NewReturn
    \/ \E s \in Subs : subscribe(s)
    \/ \E s \in Subs : Recv(s)
    \/ \E w \in Kinds, ok \in BOOLEAN, data \in StartContents : ThreadLoad(w, ok, data)
    \/ \E w \in Kinds : ThreadSendLoaded(w)
    \/ \E w \in Kinds, c \in BusContents : LoadWaitOk(w, c, MaxBusChanges)
    \/ \E w \in Kinds : ThreadSend(w)

SpecBus == InitBus /\ [][NextBus]_vars

\* The history driver, called by a single owner (the monitor is not started).
InitHist == MonInit /\ HistInit /\ opts.load_current /\ opts.enable_clipboard /\ opts.enable_primary

NextHist ==
    \/ \E io \in BOOLEAN : Load(io)
    \/ \E data \in Batches, ft \in Faults : Save(data, ft)
    \/ \E data \in Records, ft \in Faults : Put(data, ft)
    \/ \E ft \in Faults : Clear(ft)
    \/ \E min_capacity \in 0..(MaxStored + 1), ft \in Faults : ShrinkTo(min_capacity, ft)

SpecHist == InitHist /\ [][NextHist]_vars

\* Two callers of put on one backing file, with nothing ordering their calls.
NextConc ==
    \/ \E p \in Callers, data \in Records : PutLoad(p, data)
    \/ \E p \in Callers : PutWrite(p)

SpecConc == InitHist /\ [][NextConc]_vars

\* ------------------------------------------------------ claims: monitor

\* What a subscriber has got and will get without a further publish.
Seen(s) == received[s] \o Pending(s)

\* The entries of a sequence of channel slots that watcher w published.
EventsOf(w, slots) == SelectSeq(slots, LAMBDA e : e.val.selection = w)

ContentsOf(slots) == [i \in 1..Len(slots) |-> slots[i].val.content]

\* Every value load_wait() handed to w was read with the monitor enabled, is
\* longer than filter_min_size and differs from its predecessor (the first
\* from the value tracked when it arrived).
AllQualify(w) == \A i \in 1..Len(chg[w]) : chg[w][i].run /\ Len(chg[w][i].c) > opts.filter_min_size /\ chg[w][i].c # (IF i = 1 THEN chg[w][1].last ELSE chg[w][i - 1].c)

\* How many events w had published when s subscribed.
MissedBy(s, w) == Len(SelectSeq(log, LAMBDA e : e.val.selection = w /\ e.pos < subAt[s]))

\* The events of w's change loop among a subscriber's (those after the ones w
\* had published before its first change).
LoopSeen(w, s) == SubSeq(EventsOf(w, Seen(s)), chg[w][1].own - MissedBy(s, w) + 1, Len(EventsOf(w, Seen(s))))

\* C1: with the monitor enabled and a subscriber that subscribed before the
\* watcher published for its first change and never lagged, a watcher that
\* got the changes C1..Cn, each longer than filter_min_size and different from
\* its predecessor, has published exactly n events for them, in order, the
\* i-th carrying Ci.
C1_EventsCarryFreshContent ==
    \A w \in Kinds, s \in Subs :
        (pc[w] = "wait" /\ Len(chg[w]) > 0 /\ AllQualify(w) /\ rx[s].on /\ lagged[s] = 0 /\ MissedBy(s, w) <= chg[w][1].own)
            => ContentsOf(LoopSeen(w, s)) = [i \in 1..Len(chg[w]) |-> chg[w][i].c]

\* The events w has published so far.
PublishedBy(w) == EventsOf(w, log)

\* C2: once a watcher has published, its `last` is the content of its latest
\* event, and after a publish of the change loop it is the value that was
\* read (it is updated on every publish, not only at the initial load).
C2_LastTracksPublished ==
    \A w \in Kinds :
        (pc[w] = "wait" /\ Len(PublishedBy(w)) > 0)
            => /\ last[w] = PublishedBy(w)[Len(PublishedBy(w))].val.content
               /\ (Len(chg[w]) > 0 /\ chg[w][Len(chg[w])].out = "sent") => last[w] = chg[w][Len(chg[w])].c

\* C3: no published event carries content of length <= filter_min_size;
\* content read at startup that is too short leaves `last` empty; and a later
\* value longer than filter_min_size that differs from `last`, read while
\* enabled, is handed to the channel.
C3_ShortContentNeverPublished ==
    /\ \A i \in 1..Len(log) : Len(log[i].val.content) > opts.filter_min_size
    /\ \A w \in Kinds : (pc[w] = "wait" /\ chg[w] = <<>> /\ Len(curr[w]) <= opts.filter_min_size) => last[w] = <<>>
    /\ \A w \in Kinds : \A i \in 1..Len(chg[w]) : (chg[w][i].run /\ Len(chg[w][i].c) > opts.filter_min_size /\ chg[w][i].c # chg[w][i].last) => chg[w][i].out # "none"

\* How many of the first n values w read were published.
SentAmong(w, n) == Cardinality({j \in 1..n : chg[w][j].out = "sent"})

\* C4: a change a watcher reads while the flag is off produces no event, on
\* either watcher; a change read while the flag is on (again), longer than
\* filter_min_size and different from `last`, is published (it is handed to
\* the channel, which takes it unless no receiver is left). The watcher's
\* events grow by exactly the changes so published.
C4_DisableSuppressesEnableResumes ==
    \A w \in Kinds :
        /\ \A i \in 1..Len(chg[w]) :
            /\ ~chg[w][i].run => chg[w][i].out = "none"
            /\ (chg[w][i].run /\ Len(chg[w][i].c) > opts.filter_min_size /\ chg[w][i].c # chg[w][i].last) => chg[w][i].out \in {"pending", "sent", "closed"}
            /\ chg[w][i].own = chg[w][1].own + SentAmong(w, i - 1)
        /\ Len(chg[w]) > 0 => Len(PublishedBy(w)) = chg[w][1].own + SentAmong(w, Len(chg[w]))

\* A watcher dropped a publishable change while disabled and published the
\* next one after enable().
C4_Witness ==
    \E w \in Kinds : \E i, j \in 1..Len(chg[w]) :
        /\ i < j
        /\ ~chg[w][i].run /\ Len(chg[w][i].c) > opts.filter_min_size /\ chg[w][i].c # chg[w][i].last
        /\ chg[w][i].out = "none"
        /\ chg[w][j].run /\ chg[w][j].out = "sent"
        /\ is_running

\* C5: whatever a subscriber receives or has pending was published after its
\* subscribe() call: nothing published before is replayed.
C5_NoReplayBeforeSubscribe ==
    \A s \in Subs : rx[s].on => \A i \in 1..Len(Seen(s)) : Seen(s)[i].pos >= subAt[s] /\ Seen(s)[i] = log[Seen(s)[i].pos + 1]

\* A subscriber that subscribed after at least one event and has received a
\* later one.
C5_Witness == \E s \in Subs : rx[s].on /\ subAt[s] >= 1 /\ Len(received[s]) >= 1

\* The newest k entries of a sequence.
Newest(k, seq) == SubSeq(seq, Len(seq) - k + 1, Len(seq))

\* C6: a watcher about to publish can always do so, whatever the subscribers
\* have pending; a subscriber has at most 16 events pending, and they are the
\* newest of those published since its cursor, in publish order (the oldest
\* are lost when more than 16 are undelivered).
C6_PublishNeverBlocksDropOldest ==
    /\ \A w \in Kinds : (~exited /\ pc[w] = "send") => ENABLED ThreadSend(w)
    /\ \A w \in Kinds : (~exited /\ pc[w] = "send0") => ENABLED ThreadSendLoaded(w)
    /\ \A s \in Subs : rx[s].on =>
        /\ Len(Pending(s)) <= 16
        /\ Pending(s) = Newest(Min(16, tail - rx[s].next), log)

\* A subscriber more than 16 events behind, after the publish completed.
C6_Witness == \E s \in Subs : rx[s].on /\ tail - rx[s].next > 16 /\ pc["Clipboard"] = "wait" /\ Len(received[s]) > 0

\* ------------------------------------------------------ claims: history

\* C7: after a successful save or put, load() returns what was stored before
\* followed by the records given, in order; put(r) leaves the file save([r])
\* would; and from the last clear() (or the absent file) on, with only saves
\* and puts, load() returns every record appended, in call order.
C7_AppendsInCallOrder ==
    /\ (ret.op \in {"save", "put"} /\ ret.status = "ok") => load(file, FALSE) = [status |-> "ok", data |-> Stored(ret.before) \o ret.arg]
    /\ (ret.op = "put" /\ ret.status = "ok") => file = save(ret.before, ret.arg, "none", 0).file
    /\ ~dirty => load(file, FALSE) = [status |-> "ok", data |-> appended]

\* put(1); put(2) on an absent file: load() returns [1, 2].
C7_Witness == ret.op = "put" /\ ret.status = "ok" /\ ~dirty /\ appended = <<1, 2>> /\ Stored(ret.before) = <<1>> /\ Stored(file) = <<1, 2>>

\* C8: after a successful shrink_to(n) on the stored sequence S, load()
\* returns the last min(|S|, n) elements of S in their order.
C8_ShrinkKeepsNewest ==
    (ret.op = "shrink_to" /\ ret.status = "ok") => load(file, FALSE) = [status |-> "ok", data |-> Newest(Min(Len(Stored(ret.before)), ret.n), Stored(ret.before))]

\* shrink_to(1) on three records removed the two oldest.
C8_Witness == ret.op = "shrink_to" /\ ret.status = "ok" /\ ret.n = 1 /\ Stored(ret.before) = <<1, 2, 1>> /\ Stored(file) = <<1>>

\* C9: a clear() whose write meets no fault succeeds and leaves a file from
\* which load() returns the empty sequence, whatever the file held before
\* (clear does not decode it); so does every successful clear().
C9_ClearEmpties ==
    /\ (ret.op = "clear" /\ ret.fault = "none") => ret.status = "ok"
    /\ (ret.op = "clear" /\ ret.status = "ok") => load(file, FALSE) = [status |-> "ok", data |-> <<>>]

\* clear() succeeded on a file that could not be decoded.
C9_Witness == ret.op = "clear" /\ ret.status = "ok" /\ ret.before.exists /\ load(ret.before, FALSE).status = "serde"

\* C10: load() with no file at the path (and no other open error) returns the
\* empty sequence and no error; a load() leaves the file as it was (absent
\* stays absent).
C10_LoadAbsentIsEmpty ==
    /\ (ret.op = "load" /\ ~ret.before.exists /\ ret.fault = "none") => (ret.status = "ok" /\ ret.value = <<>>)
    /\ ret.op = "load" => file = ret.before

\* load() returned on an absent file.
C10_Witness == ret.op = "load" /\ ~ret.before.exists /\ ret.status = "ok" /\ ~file.exists

\* Whether a is the tail end of b.
IsSuffix(a, b) == Len(a) <= Len(b) /\ a = SubSeq(b, Len(b) - Len(a) + 1, Len(b))

\* C11: whenever the file holds a history, it is a contiguous suffix, in
\* order, of the records appended by save and put since the last clear() (or
\* since the absent file): no record that was not given, none twice, none
\* out of order.
C11_StoredIsSuffixOfAppended == load(file, FALSE).status = "ok" => IsSuffix(Stored(file), appended)

\* A put after a shrink_to: the file holds a proper suffix of what was appended.
C11_Witness == ret.op = "put" /\ ret.status = "ok" /\ dirty /\ Len(Stored(file)) = 2 /\ Len(appended) = 4 /\ IsSuffix(Stored(file), appended)

\* A watcher thread that exists and has not returned.
Running(w) == pc[w] \notin {"none", "stopped"}

\* C12: new() starts exactly one watcher per enabled kind, succeeds with no
\* watcher when both kinds are disabled, and when it fails on a backend that
\* cannot be constructed it leaves no watcher thread running.
C12_NewStartsOrLeavesNothing == /\ pcNew = "done" => \A w \in Kinds : (pc[w] # "none") <=> Requested(w)
                                /\ (~opts.enable_clipboard /\ ~opts.enable_primary) => pcNew # "failed"
                                /\ pcNew = "failed" => \A w \in Kinds : ~Running(w)

\* C13: the monitor starts Enabled; enable() leaves it Enabled, disable()
\* leaves it Disabled, toggle() inverts it; and a step that changes the flag
\* starts or stops no watcher, changes no watcher's tracked value and no
\* subscriber's queue.
C13_FlagOpsTouchOnlyFlag == state = "Enabled" /\ [][(enable => state' = "Enabled") /\ (disable => state' = "Disabled") /\ (toggle => state' # state) /\ (is_running' # is_running => UNCHANGED <<pc, last, curr, buffer, tail, rx, received, log>>)]_vars

\* Disabled by the controller while a watcher waits and a subscriber holds an undelivered event.
C13_Witness == state = "Disabled" /\ pcNew = "done" /\ (\E w \in Kinds : pc[w] = "wait" /\ last[w] # <<>>) /\ (\E s \in Subs : rx[s].on /\ Pending(s) # <<>>)

\* C14: a failed wait publishes nothing and keeps the tracked value; when the
\* factory then gives a backend the watcher is waiting again and the process
\* lives, and when the factory fails the process has exited, after which
\* nothing runs.
C14_WaitErrorReconnectsOrExits == [][/\ ~exited
                                     /\ \A w \in Kinds : LoadWaitErr(w, TRUE) => (log' = log /\ last' = last /\ pc'[w] = "wait" /\ ~exited' /\ chg' = chg)
                                     /\ \A w \in Kinds : LoadWaitErr(w, FALSE) => (log' = log /\ last' = last /\ exited')
                                     /\ (exited' => \E w \in Kinds : pc[w] = "wait" /\ pc' = pc)]_vars

\* The process has exited out of a watcher's wait, after events were published.
C14_Witness == exited /\ log # <<>> /\ \E w \in Kinds : pc[w] = "wait" /\ chg[w] # <<>>

\* C15 as stated: a started watcher is never in a terminal state while the
\* process lives.
C15_WatcherPersists == \A w \in Kinds : (pc[w] # "none" /\ ~exited) => Running(w)

\* The thread of w can take its next step without waiting on anything.
CanStep(w) == (ENABLED (\E ok \in BOOLEAN, data \in StartContents : ThreadLoad(w, ok, data))) \/ (ENABLED ThreadSendLoaded(w)) \/ (ENABLED ThreadSend(w))

\* C15, amended: a watcher thread ends in two ways only, a publish attempt
\* that finds no receiver (the thread returns) and a failed reconnection (the
\* process exits out of a wait); a returned thread stays returned, every other
\* step of a watcher leaves it reading, publishing or waiting, and a watcher
\* that is not waiting for a change can always take its next step.
C15_EndsOnlyOnClosedBusOrExit ==
    /\ [](\A w \in Kinds : (~exited /\ pc[w] \in {"load", "send0", "send"}) => CanStep(w))
    /\ [][\A w \in Kinds :
            /\ ((pc'[w] = "stopped" /\ pc[w] # "stopped") => (pc[w] \in {"send0", "send"} /\ NumReceivers = 0))
            /\ ((pc[w] # "none" /\ pc'[w] # pc[w]) => (pc[w] # "stopped" /\ pc'[w] \in {"send0", "send", "wait", "stopped"}))
            /\ ((exited' # exited) => (exited' /\ \E v \in Kinds : LoadWaitErr(v, FALSE)))]_vars

\* One watcher has returned on a closed bus, the other waits, the process lives.
C15_Witness == ~exited /\ pcNew = "done" /\ \E w, v \in Kinds : pc[w] = "stopped" /\ pc[v] = "wait" /\ chg[v] # <<>>

\* C16: a watcher whose publish attempt finds no receiver returns: the
\* process lives, nothing is published, the other watcher is where it was;
\* and a returned watcher stays returned and publishes nothing, whoever
\* subscribes later.
C16_ClosedBusStopsOnlyThatWatcher ==
    [][\A w \in Kinds :
         /\ ((pc[w] \in {"send0", "send"} /\ NumReceivers = 0 /\ pc'[w] # pc[w]) => (pc'[w] = "stopped" /\ ~exited' /\ log' = log /\ \A v \in Kinds \ {w} : pc'[v] = pc[v]))
         /\ (pc[w] = "stopped" => (pc'[w] = "stopped" /\ EventsOf(w, log') = EventsOf(w, log)))]_vars

\* The clipboard watcher returned in the window before the first subscribe();
\* a subscriber has since received an event of the primary watcher.
C16_Witness == ~exited /\ pc["Clipboard"] = "stopped" /\ EventsOf("Clipboard", log) = <<>> /\ \E s \in Subs : rx[s].on /\ EventsOf("Primary", received[s]) # <<>>

\* The thread of w stands before a publish that no further flag check gates:
\* the startup publish, or the publish of a change already examined.
Armed(w) == pc[w] \in {"load", "send0", "send"}

LoadFailed(r) == load(r.before, r.fault = "load").status # "ok"

\* C18: a save, put or shrink_to whose load step failed returned that very
\* error and left the file as it was, byte for byte; and no call in which
\* something failed returned success.
C18_FailedLoadWritesNothing ==
    /\ (ret.op \in {"save", "put", "shrink_to"} /\ LoadFailed(ret)) => (ret.status = load(ret.before, ret.fault = "load").status /\ file = ret.before)
    /\ (ret.op = "load" => ret.status = load(ret.before, ret.fault = "load").status)
    /\ (ret.fault # "none" => ret.status # "ok")

\* A shrink_to over a file that holds a torn encoding: decode error, file untouched.
C18_Witness == ret.op = "shrink_to" /\ ret.fault = "none" /\ ret.status = "serde" /\ file.exists /\ file.bytes # <<>> /\ file = ret.before

\* What the call that returned r was writing, its load step having succeeded.
Intended(r) ==
    CASE r.op \in {"save", "put"} -> Stored(r.before) \o r.arg
      [] r.op = "shrink_to" -> Newest(Min(r.n, Len(Stored(r.before))), Stored(r.before))
      [] OTHER -> <<>>

\* An existing file with nothing in it, or with fewer records than its length prefix announces.
Short(f) == f.exists /\ (f.bytes = <<>> \/ Len(f.bytes) <= f.bytes[1])

IsProperPrefix(a, b) == Len(a) < Len(b) /\ a = SubSeq(b, 1, Len(a))

\* C19: a write whose encoding fails leaves an existing file that holds
\* nothing or a proper part of the new encoding, and the call returns the
\* error; such a file does not decode, so load returns a serialization error
\* (a zero-length file is no missing file) and save, put and shrink_to
\* return it too and leave the file alone, until a clear() succeeds.
C19_TornWriteLosesHistory ==
    /\ (ret.fault = "encode" /\ (ret.op = "clear" \/ ~LoadFailed(ret))) => (ret.status = "serde" /\ file.exists /\ IsProperPrefix(file.bytes, Serialize(Intended(ret))) /\ load(file, FALSE).status = "serde")
    /\ (ret.op \in {"load", "save", "put", "shrink_to"} /\ ret.fault = "none" /\ Short(ret.before)) => (ret.status = "serde" /\ file = ret.before)
    /\ (ret.op = "clear" /\ ret.status = "ok") => (load(file, FALSE).status = "ok" /\ Stored(file) = <<>>)

\* A put over a stored history was cut right after the truncation: the
\* file exists, is empty, and the records it held are gone.
C19_Witness == ret.op = "put" /\ ret.fault = "encode" /\ Stored(ret.before) # <<>> /\ file.exists /\ file.bytes = <<>> /\ load(file, FALSE).status = "serde"

\* C20: as long as no put has loaded the file while another was between its
\* load and its write (one owner, one call at a time), the file holds every
\* record whose put returned Ok, in order of return. With overlapping calls
\* this fails: the witness is a lost update.
C20_SerializedPutsLoseNothing == ~overlap => (Stored(file) = acked /\ \A p \in Callers : call[p].pc = "loaded" => call[p].saved = acked)

\* Both callers' puts returned Ok, their calls overlapped, and the file holds
\* only one of the two records.
C20_Witness == overlap /\ (\A p \in Callers : call[p].pc = "idle") /\ Len(acked) = 2 /\ acked[1] # acked[2] /\ Stored(file) = <<acked[2]>>

====
